---- MODULE Spec2Model ----
(***************************************************************************)
(* A model of the validation logic of ws/forms.py (mitoc-trips): the       *)
(* ParticipantForm, TripForm, SignUpForm and LeaderApplicationForm classes. *)
(* Each form is a small state machine: it is constructed (__init__), then   *)
(* validated (full_clean: the per-field clean_<name> hooks in field order,  *)
(* then clean), and a valid model form may be saved.  The database rows the *)
(* validators read are state variables of their own.                        *)
(***************************************************************************)
EXTENDS Integers, Sequences, FiniteSets, TLC

VARIABLES
    emailaddress_set,   \* user.emailaddress_set: set of [email, verified]
    pform,              \* the ParticipantForm of the current request
    trip,               \* the models.Trip row being created or edited
    accepted_signups,   \* trip.signup_set.filter(on_trip=True).count()
    ratings,            \* participant -> programs that participant can lead
    tform,              \* the TripForm of the current request
    saved_since_signup, \* a TripForm was saved and no signup changed since
    sform,              \* the SignUpForm of the current request
    accepting,          \* activity -> LeaderApplication.accepting_applications
    lform               \* the form returned by LeaderApplicationForm(...)

pvars == <<emailaddress_set, pform>>
tvars == <<trip, accepted_signups, ratings, tform, saved_since_signup>>
svars == <<sform>>
lvars == <<accepting, lform>>
vars == <<pvars, tvars, svars, lvars>>

\* Python's None
None == "None"

(***************************************************************************)
(* Strings whose characters matter are sequences of one-character strings.  *)
(***************************************************************************)
UpperToLower == [A |-> "a", D |-> "d", E |-> "e", I |-> "i", M |-> "m",
                 T |-> "t", U |-> "u"]

\* str.lower() on one character
LowerChar(c) == IF c \in DOMAIN UpperToLower THEN UpperToLower[c] ELSE c

\* str.lower()
Lower(s) == [i \in 1..Len(s) |-> LowerChar(s[i])]

\* str.endswith(suffix)
EndsWith(s, suffix) ==
    /\ Len(suffix) <= Len(s)
    /\ SubSeq(s, Len(s) - Len(suffix) + 1, Len(s)) = suffix

\* str.strip() for a string made of spaces and other characters
RECURSIVE LStrip(_)
LStrip(s) == IF s # <<>> /\ Head(s) = " " THEN LStrip(Tail(s)) ELSE s

RECURSIVE RStrip(_)
RStrip(s) ==
    IF s # <<>> /\ s[Len(s)] = " " THEN RStrip(SubSeq(s, 1, Len(s) - 1)) ELSE s

Strip(s) == RStrip(LStrip(s))

(***************************************************************************)
(* ParticipantForm                                                          *)
(***************************************************************************)
MIT_UNDERGRAD == "MU"
MIT_GRAD_STUDENT == "MG"
MIT_AFFILIATE == "MA"
NON_AFFILIATE == "NA"

\* The choices of the affiliation model field.
AffiliationChoices == {MIT_UNDERGRAD, MIT_GRAD_STUDENT, MIT_AFFILIATE, NON_AFFILIATE}

\* What a request may submit as affiliation: a choice, a blank, a legacy code.
SubmittedAffiliations == AffiliationChoices \cup {"", "S"}

MitEdu == <<"m", "i", "t", ".", "e", "d", "u">>
AtMitEdu == <<"@">> \o MitEdu

\* The e-mail addresses users of the model own.
Emails == {
    <<"a", "@">> \o MitEdu,
    <<"A", "@", "M", "I", "T", ".", "E", "D", "U">>,
    <<"a", "@", "a", "l", "u", "m", ".">> \o MitEdu,
    <<"a", "@", "s", "u", "m">> \o MitEdu,
    <<"a", "@", "g", "m", "a", "i", "l", ".", "c", "o", "m">>,
    MitEdu \o <<"@", "x", ".", "o", "r", "g">> }

\* Most e-mail addresses one user has on file.
MaxEmails == 2

\* user.emailaddress_set.filter(verified=True).values_list("email", flat=True)
VerifiedEmails(addresses) == {a.email : a \in {x \in addresses : x.verified}}

\* any(email.lower().endswith("mit.edu") for email in self.verified_emails),
\* mutated to compare without lower-casing
HasMitEmailCaseSensitive(verified_emails) ==
    \E email \in verified_emails : EndsWith(email, MitEdu)

\* any(email.lower().endswith("mit.edu") for email in self.verified_emails)
HasMitEmail(verified_emails) ==
    \E email \in verified_emails : EndsWith(Lower(email), MitEdu)

\* The outcome of a field's clean or of a clean_<name> hook: a returned value,
\* a ValidationError (kept by the form as an error of the field), or any other
\* exception (which leaves full_clean uncaught).
Returned(value) == [kind |-> "return", value |-> value, code |-> "", message |-> ""]
Invalid(code, message) ==
    [kind |-> "invalid", value |-> None, code |-> code, message |-> message]
Threw(exception) ==
    [kind |-> "exception", value |-> None, code |-> exception, message |-> ""]

\* ParticipantForm.clean_affiliation
clean_affiliation(affiliation, verified_emails) ==
    IF affiliation \notin {MIT_UNDERGRAD, MIT_GRAD_STUDENT}
    THEN Returned(affiliation)
    ELSE IF ~HasMitEmail(verified_emails)
         THEN Invalid("lacks_mit_email",
                     "MIT email address required for student affiliation!")
         ELSE Returned(affiliation)

\* No ParticipantForm exists.
NoPForm == [pc |-> "none", verified_emails |-> {}, data |-> "",
            outcome |-> Returned(None)]

\* An e-mail address is added to the account (verified or not).
AddEmailAddress(email, verified) ==
    /\ Cardinality(emailaddress_set) < MaxEmails
    /\ \A a \in emailaddress_set : a.email # email
    /\ emailaddress_set' =
           emailaddress_set \cup {[email |-> email, verified |-> verified]}
    /\ UNCHANGED <<pform, tvars, svars, lvars>>

\* An address on file is verified (the confirmation link is followed).
VerifyEmailAddress(email) ==
    /\ [email |-> email, verified |-> FALSE] \in emailaddress_set
    /\ emailaddress_set' =
           (emailaddress_set \ {[email |-> email, verified |-> FALSE]})
               \cup {[email |-> email, verified |-> TRUE]}
    /\ UNCHANGED <<pform, tvars, svars, lvars>>

\* An address is removed from the account.
RemoveEmailAddress(a) ==
    /\ a \in emailaddress_set
    /\ emailaddress_set' = emailaddress_set \ {a}
    /\ UNCHANGED <<pform, tvars, svars, lvars>>

\* ParticipantForm.__init__: the verified addresses are read here (the list
\* comprehension for the e-mail choices evaluates and caches the queryset).
ParticipantForm__init__(affiliation) ==
    /\ pform' = [pc |-> "constructed",
                 verified_emails |-> VerifiedEmails(emailaddress_set),
                 data |-> affiliation,
                 outcome |-> Returned(None)]
    /\ UNCHANGED <<emailaddress_set, tvars, svars, lvars>>

\* full_clean for the affiliation field: the choice field validates the
\* submitted value, and clean_affiliation runs only if it passed.
ParticipantForm_full_clean ==
    /\ pform.pc = "constructed"
    /\ pform' = [pform EXCEPT
           !.pc = "cleaned",
           !.outcome =
               IF pform.data = "" THEN Invalid("required", "This field is required.")
               ELSE IF pform.data \notin AffiliationChoices
               THEN Invalid("invalid_choice", "Select a valid choice.")
               ELSE clean_affiliation(pform.data, pform.verified_emails)]
    /\ UNCHANGED <<emailaddress_set, tvars, svars, lvars>>

(***************************************************************************)
(* TripForm                                                                 *)
(***************************************************************************)
\* enums.Program values (a sample: both winter programs, a summer one and
\* the catch-all).
WINTER_SCHOOL == "winter_school"
WINTER_NON_IAP == "winter_non_iap"
HIKING == "hiking"
NO_PROGRAM == "none"
Programs == {WINTER_SCHOOL, WINTER_NON_IAP, HIKING, NO_PROGRAM}

\* enums.Program(value) raises ValueError unless value names a member.
IsProgram(value) == value \in Programs

\* enums.Program.winter_rules_apply
winter_rules_apply(program) == program \in {WINTER_SCHOOL, WINTER_NON_IAP}

\* The choices of the winter_terrain_level model field.
LevelChoices == {"A", "B"}

Participants == {"ann", "bob"}
\* A primary key that is no participant's.
Ghost == "ghost"

\* Largest maximum_participants a request submits.
MaxParticipants == 3
\* Largest number of accepted signups a trip has.
MaxSignups == 3

\* Python truthiness of None or a str
Truthy(value) == value # None /\ value # ""

\* The primary key of the one saved trip.
SavedPk == "pk1"

\* Participant.can_lead(program_enum)
can_lead(participant, program) == program \in ratings[participant]

TripFieldNames == {"program", "maximum_participants", "winter_terrain_level",
                   "leaders", "membership_required"}

\* self.cleaned_data before any field was cleaned: has is the set of its keys.
EmptyCleanedData ==
    [has |-> {}, program |-> None, maximum_participants |-> 0,
     winter_terrain_level |-> None, leaders |-> {}, membership_required |-> FALSE]

\* self.cleaned_data[name] = value
SetCleaned(cleaned_data, name, value) ==
    [cleaned_data EXCEPT !.has = @ \cup {name}, ![name] = value]

\* An entry of form.errors.  names and program carry the interpolated parts of
\* the leaders message.
FormError(field, message) ==
    [field |-> field, message |-> message, names |-> {}, program |-> ""]

\* TripForm.clean_membership_required, mutated to trust the submitted value
clean_membership_required_submitted(cleaned_data) ==
    Returned(cleaned_data.membership_required)

\* TripForm.clean_membership_required
clean_membership_required(cleaned_data) ==
    IF "program" \in cleaned_data.has /\ cleaned_data.program = WINTER_SCHOOL
    THEN Returned(TRUE)
    ELSE Returned(cleaned_data.membership_required)

ShrinkMessage == "Can't shrink trip past number of signed-up participants. To remove participants, admin this trip instead."

\* TripForm.clean_maximum_participants, mutated to skip the signup count
clean_maximum_participants_unchecked(instance, cleaned_data, accepted) ==
    Returned(cleaned_data.maximum_participants)

\* TripForm.clean_maximum_participants, mutated to reject a maximum equal to
\* the signup count (>= for >)
clean_maximum_participants_strict(instance, cleaned_data, accepted) ==
    LET new_max == cleaned_data.maximum_participants
    IN  IF instance.pk = None
        THEN Returned(new_max)
        ELSE IF accepted >= new_max
             THEN Invalid("", ShrinkMessage)
             ELSE Returned(new_max)

\* TripForm.clean_maximum_participants; accepted is
\* trip.signup_set.filter(on_trip=True).count()
clean_maximum_participants(instance, cleaned_data, accepted) ==
    LET new_max == cleaned_data.maximum_participants
    IN  IF instance.pk = None
        THEN Returned(new_max)
        ELSE IF accepted > new_max
             THEN Invalid("", ShrinkMessage)
             ELSE Returned(new_max)

\* TripForm.clean_winter_terrain_level
clean_winter_terrain_level(cleaned_data) ==
    LET program == IF "program" \in cleaned_data.has
                   THEN cleaned_data.program ELSE None
        level == IF "winter_terrain_level" \in cleaned_data.has
                 THEN cleaned_data.winter_terrain_level ELSE ""
    IN  IF Truthy(program) /\ ~IsProgram(program)
        THEN Threw("ValueError")
        ELSE IF Truthy(program) /\ ~winter_rules_apply(program)
        THEN Returned(None)
        ELSE IF level = None          \* assert isinstance(level, str)
        THEN Threw("AssertionError")
        ELSE Returned(level)

\* The leaders TripForm.clean checks, mutated to check every submitted leader
CheckedLeadersAll(instance, leaders) == leaders

\* The leaders TripForm.clean checks: all of them for a new trip,
\* leaders.exclude(pk__in=trip.leaders.all()) for a saved one.
CheckedLeaders(instance, leaders) ==
    IF Truthy(instance.pk) THEN leaders \ instance.leaders ELSE leaders

\* TripForm.clean: the errors it adds
clean(instance, cleaned_data) ==
    IF "program" \notin cleaned_data.has \/ "leaders" \notin cleaned_data.has
    THEN {}
    ELSE LET program_enum == cleaned_data.program
             leaders == CheckedLeaders(instance, cleaned_data.leaders)
             lacking_privs == {par \in leaders : ~can_lead(par, program_enum)}
         IN  IF lacking_privs # {}
             THEN {[field |-> "leaders", message |-> "can't lead",
                    names |-> lacking_privs, program |-> program_enum]}
             ELSE {}

\* TripForm._allowed_program_choices: the values of the program choices
allowed_program_choices(instance, allowed_programs) ==
    IF instance.program \notin allowed_programs
    THEN {instance.program} \cup allowed_programs
    ELSE allowed_programs

\* TripForm.__init__: self.fields["winter_terrain_level"].required, mutated
\* to always require the level
winter_terrain_level_required_always(data) == TRUE

\* TripForm.__init__: self.fields["winter_terrain_level"].required, given
\* that enums.Program(program) did not raise
winter_terrain_level_required(data) ==
    IF Truthy(data.program)
    THEN winter_rules_apply(data.program)
    ELSE TRUE

\* The fields' own cleaning, before the clean_<name> hooks.
ProgramFieldClean(value, choices) ==
    IF ~Truthy(value) THEN Invalid("required", "This field is required.")
    ELSE IF value \notin choices
    THEN Invalid("invalid_choice", "Select a valid choice.")
    ELSE Returned(value)

MaximumParticipantsFieldClean(value) ==
    IF value < 0 THEN Invalid("min_value", "Ensure this value is at least 0.")
    ELSE Returned(value)

\* An empty value of the nullable level field is cleaned to None.
WinterTerrainLevelFieldClean(value, required) ==
    IF ~Truthy(value)
    THEN IF required THEN Invalid("required", "This field is required.")
         ELSE Returned(None)
    ELSE IF value \notin LevelChoices
    THEN Invalid("invalid_choice", "Select a valid choice.")
    ELSE Returned(value)

LeadersFieldClean(value) ==
    IF ~(value \subseteq Participants)
    THEN Invalid("invalid_choice", "Select a valid choice.")
    ELSE Returned(value)

\* No TripForm exists.
NoData ==
    [bound |-> FALSE, program |-> None, maximum_participants |-> 0,
     winter_terrain_level |-> None, leaders |-> {}, membership_required |-> FALSE]

NoTForm ==
    [pc |-> "none", data |-> NoData, program_choices |-> Programs,
     level_required |-> TRUE, exception |-> "", cleaned_data |-> EmptyCleanedData,
     errors |-> {}, hooks |-> {}, level_field |-> Returned(None),
     level_hook |-> Returned(None)]

\* TripForm.__init__(data, instance=trip, allowed_programs=...).  An unbound
\* form (a GET) has self.data = {}.  restricted is whether allowed_programs
\* was given.
TripForm__init__(data, restricted, allowed_programs) ==
    /\ tform' =
         IF Truthy(data.program) /\ ~IsProgram(data.program)
         THEN [NoTForm EXCEPT !.pc = "raised", !.data = data,
                              !.exception = "ValueError"]
         ELSE [NoTForm EXCEPT
                 !.pc = "constructed",
                 !.data = data,
                 !.level_required = winter_terrain_level_required(data),
                 !.program_choices =
                     IF restricted
                     THEN allowed_program_choices(trip, allowed_programs)
                     ELSE Programs]
    /\ UNCHANGED <<trip, accepted_signups, ratings, saved_since_signup,
                   pvars, svars, lvars>>

\* _clean_fields, per field: the field's clean, then the clean_<name> hook on
\* the cleaned data holding the field's value.  cleaned_data after the field
\* has the hook's value, or no entry on an error.
AfterField(cleaned_data, name, outcome) ==
    IF outcome.kind = "return"
    THEN SetCleaned(cleaned_data, name, outcome.value)
    ELSE cleaned_data

ErrorsOf(name, outcome) ==
    IF outcome.kind = "invalid" THEN {FormError(name, outcome.message)} ELSE {}

\* TripForm.full_clean of a bound form: _clean_fields in the order of
\* Meta.fields (program, maximum_participants, winter_terrain_level, leaders,
\* membership_required), then clean.  hooks records the clean_<name> methods
\* that ran.
TripForm_full_clean ==
    /\ tform.pc = "constructed"
    /\ tform.data.bound
    /\ LET d == tform.data
           f1 == ProgramFieldClean(d.program, tform.program_choices)
           c1 == AfterField(EmptyCleanedData, "program", f1)
           f2 == MaximumParticipantsFieldClean(d.maximum_participants)
           o2 == IF f2.kind # "return" THEN f2
                 ELSE clean_maximum_participants(
                          trip, SetCleaned(c1, "maximum_participants", f2.value),
                          accepted_signups)
           c2 == AfterField(c1, "maximum_participants", o2)
           f3 == WinterTerrainLevelFieldClean(d.winter_terrain_level,
                                              tform.level_required)
           o3 == IF f3.kind # "return" THEN f3
                 ELSE clean_winter_terrain_level(
                          SetCleaned(c2, "winter_terrain_level", f3.value))
           c3 == AfterField(c2, "winter_terrain_level", o3)
           o4 == LeadersFieldClean(d.leaders)
           c4 == AfterField(c3, "leaders", o4)
           f5 == Returned(d.membership_required)
           o5 == clean_membership_required(
                     SetCleaned(c4, "membership_required", f5.value))
           c5 == AfterField(c4, "membership_required", o5)
           field_errors == ErrorsOf("program", f1)
                             \cup ErrorsOf("maximum_participants", o2)
                             \cup ErrorsOf("winter_terrain_level", o3)
                             \cup ErrorsOf("leaders", o4)
           clean_errors == clean(trip, c5)
           c6 == IF clean_errors = {} THEN c5
                 ELSE [c5 EXCEPT !.has = @ \ {"leaders"}]
           hooks == (IF f2.kind = "return" THEN {"maximum_participants"} ELSE {})
                      \cup (IF f3.kind = "return" THEN {"winter_terrain_level"} ELSE {})
                      \cup {"membership_required"}
       IN  tform' =
             IF o3.kind = "exception"
             THEN [tform EXCEPT !.pc = "raised", !.exception = o3.code,
                                !.cleaned_data = c2,
                                !.hooks = hooks \ {"membership_required"},
                                !.level_field = f3, !.level_hook = o3]
             ELSE [tform EXCEPT !.pc = "cleaned", !.cleaned_data = c6,
                                !.errors = field_errors \cup clean_errors,
                                !.hooks = hooks,
                                !.level_field = f3, !.level_hook = o3]
    /\ UNCHANGED <<trip, accepted_signups, ratings, saved_since_signup,
                   pvars, svars, lvars>>

\* form.is_valid() once full_clean has run
TripFormIsValid == tform.pc = "cleaned" /\ tform.errors = {}

\* form.save() of a valid form: the cleaned data becomes the trip's row.
TripForm_save ==
    /\ TripFormIsValid
    /\ trip' = [pk |-> SavedPk,
                program |-> tform.cleaned_data.program,
                maximum_participants |-> tform.cleaned_data.maximum_participants,
                leaders |-> tform.cleaned_data.leaders,
                membership_required |-> tform.cleaned_data.membership_required]
    /\ tform' = [tform EXCEPT !.pc = "saved"]
    /\ saved_since_signup' = TRUE
    /\ UNCHANGED <<accepted_signups, ratings, pvars, svars, lvars>>

\* No TripForm is between its construction and the end of its request.
TripRequestOver == tform.pc \in {"none", "raised", "saved"}

\* A signup of the saved trip is accepted or dropped, between requests.
SignupChange(count) ==
    /\ trip.pk # None
    /\ TripRequestOver
    /\ count # accepted_signups
    /\ accepted_signups' = count
    /\ saved_since_signup' = FALSE
    /\ UNCHANGED <<trip, ratings, tform, pvars, svars, lvars>>

\* A participant's rating for a program lapses, between requests.
RatingLapses(participant, program) ==
    /\ TripRequestOver
    /\ program \in ratings[participant]
    /\ ratings' = [ratings EXCEPT ![participant] = @ \ {program}]
    /\ UNCHANGED <<trip, accepted_signups, tform, saved_since_signup,
                   pvars, svars, lvars>>

(***************************************************************************)
(* SignUpForm                                                               *)
(***************************************************************************)
\* The trips one can sign up for, and each one's notes (the questions its
\* leaders ask): a string, empty when they ask nothing.
SignupTrips == {"hike", "climb"}
TripNotes == [hike |-> <<>>, climb |-> <<"Q", "?">>]

NoteChars == {" ", "x"}
\* Longest signup notes a request submits.
MaxNotesLen == 2
NotesInputs == UNION {[1..n -> NoteChars] : n \in 0..MaxNotesLen}

CompleteNotesMessage == "Please complete notes to sign up!"
RequiredMessage == "This field is required."

\* SignUpForm.clean_notes, mutated to skip the check against the trip's notes
clean_notes_unchecked(cleaned_data) == Returned(Strip(cleaned_data.notes))

\* SignUpForm.clean_notes
clean_notes(cleaned_data) ==
    LET signup_notes == Strip(cleaned_data.notes)
    IN  IF "trip" \notin cleaned_data.has
        THEN Returned(signup_notes)
        ELSE IF TripNotes[cleaned_data.trip] # <<>> /\ signup_notes = <<>>
             THEN Invalid("", CompleteNotesMessage)
             ELSE Returned(signup_notes)

\* SignUpForm.__init__: self.fields["notes"].required.  The model's notes
\* may be blank, so the field starts out not required.
notes_required(initial_trip) ==
    initial_trip \in SignupTrips /\ TripNotes[initial_trip] # <<>>

\* The trip field's clean: the submitted key must be a trip's.
TripFieldClean(value) ==
    IF value \notin SignupTrips
    THEN Invalid("invalid_choice", "Select a valid choice.")
    ELSE Returned(value)

\* The notes field's clean: a CharField strips the value, then applies
\* required to what is left.
NotesFieldClean(value, required) ==
    IF Strip(value) = <<>> /\ required
    THEN Invalid("required", RequiredMessage)
    ELSE Returned(Strip(value))

EmptySignUpData == [has |-> {}, trip |-> None, notes |-> <<>>]

NoSForm ==
    [pc |-> "none", initial_trip |-> None, trip |-> None, notes |-> <<>>,
     required |-> FALSE, cleaned_data |-> EmptySignUpData, errors |-> {},
     hook |-> Returned(None), hook_ran |-> FALSE]

\* SignUpForm.__init__(data, initial={"trip": initial_trip})
SignUpForm__init__(initial_trip, data_trip, data_notes) ==
    /\ sform' = [NoSForm EXCEPT
                   !.pc = "constructed",
                   !.initial_trip = initial_trip,
                   !.trip = data_trip,
                   !.notes = data_notes,
                   !.required = notes_required(initial_trip)]
    /\ UNCHANGED <<pvars, tvars, lvars>>

\* SignUpForm.full_clean: the fields in the order of Meta.fields (trip, notes).
SignUpForm_full_clean ==
    /\ sform.pc = "constructed"
    /\ LET f1 == TripFieldClean(sform.trip)
           c1 == AfterField(EmptySignUpData, "trip", f1)
           f2 == NotesFieldClean(sform.notes, sform.required)
           o2 == IF f2.kind # "return" THEN f2
                 ELSE clean_notes(SetCleaned(c1, "notes", f2.value))
           c2 == AfterField(c1, "notes", o2)
       IN  sform' = [sform EXCEPT
                       !.pc = "cleaned",
                       !.cleaned_data = c2,
                       !.errors = ErrorsOf("trip", f1) \cup ErrorsOf("notes", o2),
                       !.hook = IF f2.kind = "return" THEN o2 ELSE Returned(None),
                       !.hook_ran = (f2.kind = "return")]
    /\ UNCHANGED <<pvars, tvars, lvars>>

(***************************************************************************)
(* LeaderApplicationForm                                                    *)
(***************************************************************************)
\* enums.Activity values (a sample)
Activities == {"climbing", "hiking", "winter_school"}

NotAcceptingMessage == "Not currently accepting applications!"

\* How the caller hands the submission to the factory: as data=..., as the
\* first positional argument, or not at all (a GET).
Passings == {"keyword", "positional", "absent"}

\* DynamicActivityForm.clean, mutated to never look at accepting_applications
DynamicActivityForm_clean_open(cleaned_data, activity_enum) ==
    Returned(cleaned_data)

\* DynamicActivityForm.clean
DynamicActivityForm_clean(cleaned_data, activity_enum) ==
    IF ~accepting[activity_enum]
    THEN Invalid("", NotAcceptingMessage)
    ELSE Returned(cleaned_data)

\* DynamicActivityForm.__init__ passes only **kwargs on, so a positional
\* submission never reaches the form.
DynamicActivityForm_is_bound(passing) == passing = "keyword"

\* The fields of an application that a submission fills in.
ApplicationFields == {"desired_rating", "taking_wfa"}

NoLForm ==
    [pc |-> "none", activity_enum |-> "hiking", passing |-> "absent",
     submitted |-> {}, is_bound |-> FALSE, cleaned_data |-> {},
     errors |-> {}, clean_outcome |-> Returned({})]

\* LeaderApplicationForm(..., activity_enum=activity_enum); submitted is the
\* set of required fields the submission fills in validly.
LeaderApplicationForm(activity_enum, passing, submitted) ==
    /\ lform' = [NoLForm EXCEPT
                   !.pc = "constructed",
                   !.activity_enum = activity_enum,
                   !.passing = passing,
                   !.submitted = submitted,
                   !.is_bound = DynamicActivityForm_is_bound(passing)]
    /\ UNCHANGED <<accepting, pvars, tvars, svars>>

\* full_clean of the bound form: the fields, then clean (which runs whether
\* or not a field failed).
DynamicActivityForm_full_clean ==
    /\ lform.pc = "constructed"
    /\ lform.is_bound
    /\ LET cleaned_data == lform.submitted
           field_errors == {FormError(f, RequiredMessage) :
                               f \in ApplicationFields \ lform.submitted}
           outcome == DynamicActivityForm_clean(cleaned_data, lform.activity_enum)
       IN  lform' = [lform EXCEPT
                       !.pc = "cleaned",
                       !.cleaned_data = cleaned_data,
                       !.clean_outcome = outcome,
                       !.errors = field_errors \cup ErrorsOf("__all__", outcome)]
    /\ UNCHANGED <<accepting, pvars, tvars, svars>>

\* Applications for an activity are opened or closed (by its chair, or by
\* the Winter School settings).
SetAcceptingApplications(activity_enum, open) ==
    /\ accepting[activity_enum] # open
    /\ accepting' = [accepting EXCEPT ![activity_enum] = open]
    /\ UNCHANGED <<lform, pvars, tvars, svars>>

(***************************************************************************)
(* Specifications, one per form.                                            *)
(***************************************************************************)
PIdle == emailaddress_set = {} /\ pform = NoPForm
NewTrip ==
    [pk |-> None, program |-> NO_PROGRAM, maximum_participants |-> MaxParticipants,
     leaders |-> {}, membership_required |-> FALSE]
AllCanLead == [p \in Participants |-> Programs]
TIdle ==
    /\ trip = NewTrip
    /\ accepted_signups = 0
    /\ ratings = AllCanLead
    /\ tform = NoTForm
    /\ saved_since_signup = FALSE
SIdle == sform = NoSForm
LIdle == accepting = [a \in Activities |-> TRUE] /\ lform = NoLForm

\* ParticipantForm
InitParticipant == PIdle /\ TIdle /\ SIdle /\ LIdle

NextParticipant ==
    \/ \E email \in Emails, verified \in BOOLEAN : AddEmailAddress(email, verified)
    \/ \E email \in Emails : VerifyEmailAddress(email)
    \/ \E a \in emailaddress_set : RemoveEmailAddress(a)
    \/ \E affiliation \in SubmittedAffiliations : ParticipantForm__init__(affiliation)
    \/ ParticipantForm_full_clean

SpecParticipant == InitParticipant /\ [][NextParticipant]_vars

\* SignUpForm
InitSignUp == PIdle /\ TIdle /\ SIdle /\ LIdle

NextSignUp ==
    \/ \E initial_trip \in SignupTrips \cup {None},
          data_trip \in SignupTrips \cup {Ghost},
          data_notes \in NotesInputs :
            SignUpForm__init__(initial_trip, data_trip, data_notes)
    \/ SignUpForm_full_clean

SpecSignUp == InitSignUp /\ [][NextSignUp]_vars

\* LeaderApplicationForm
InitLeaderApplication ==
    /\ PIdle /\ TIdle /\ SIdle
    /\ accepting \in [Activities -> BOOLEAN]
    /\ lform = NoLForm

NextLeaderApplication ==
    \/ \E activity_enum \in Activities, passing \in Passings,
          submitted \in SUBSET ApplicationFields :
            LeaderApplicationForm(activity_enum, passing, submitted)
    \/ DynamicActivityForm_full_clean
    \/ \E activity_enum \in Activities, open \in BOOLEAN :
            SetAcceptingApplications(activity_enum, open)

SpecLeaderApplication == InitLeaderApplication /\ [][NextLeaderApplication]_vars

\* TripForm: the capacity of a trip
SavedTrip(program, maximum_participants, leaders, membership_required) ==
    [pk |-> SavedPk, program |-> program,
     maximum_participants |-> maximum_participants,
     leaders |-> leaders, membership_required |-> membership_required]

TripData(program, maximum_participants, level, leaders, membership_required) ==
    [bound |-> TRUE, program |-> program,
     maximum_participants |-> maximum_participants,
     winter_terrain_level |-> level, leaders |-> leaders,
     membership_required |-> membership_required]

InitTripCapacity ==
    /\ PIdle /\ SIdle /\ LIdle
    /\ \/ trip = NewTrip /\ accepted_signups = 0
       \/ /\ trip \in {SavedTrip(HIKING, m, {}, FALSE) : m \in 0..MaxParticipants}
          /\ accepted_signups \in 0..MaxSignups
    /\ ratings = AllCanLead
    /\ tform = NoTForm
    /\ saved_since_signup = FALSE

CapacityInputs ==
    {NoData} \cup {TripData(HIKING, m, "", {}, FALSE) : m \in -1..MaxParticipants}

NextTripCapacity ==
    \/ \E data \in CapacityInputs : TripForm__init__(data, FALSE, {})
    \/ TripForm_full_clean
    \/ TripForm_save
    \/ \E count \in 0..MaxSignups : SignupChange(count)

SpecTripCapacity == InitTripCapacity /\ [][NextTripCapacity]_vars

\* TripForm: the program, the winter terrain level and the dues
InitTripProgram ==
    /\ PIdle /\ SIdle /\ LIdle
    /\ trip \in {NewTrip} \cup
                {SavedTrip(p, MaxParticipants, {}, m) : p \in Programs, m \in BOOLEAN}
    /\ accepted_signups = 0
    /\ ratings = AllCanLead
    /\ tform = NoTForm
    /\ saved_since_signup = FALSE

SubmittedPrograms == Programs \cup {None, "", "bogus"}
SubmittedLevels == LevelChoices \cup {None, "", "Z"}

ProgramInputs ==
    {NoData} \cup
    {TripData(p, MaxParticipants, l, {}, m) :
        p \in SubmittedPrograms, l \in SubmittedLevels, m \in BOOLEAN}

\* The allowed_programs a view passes: those the user may create trips for.
AllowedProgramSets == {{WINTER_SCHOOL}, {HIKING, NO_PROGRAM}}

NextTripProgram ==
    \/ \E data \in ProgramInputs : TripForm__init__(data, FALSE, {})
    \/ \E data \in ProgramInputs, allowed_programs \in AllowedProgramSets :
            TripForm__init__(data, TRUE, allowed_programs)
    \/ TripForm_full_clean
    \/ TripForm_save

SpecTripProgram == InitTripProgram /\ [][NextTripProgram]_vars

\* TripForm: the leaders of a trip
RatedPrograms == {HIKING, WINTER_SCHOOL}

InitTripLeaders ==
    /\ PIdle /\ SIdle /\ LIdle
    /\ trip \in {NewTrip} \cup
                {SavedTrip(p, MaxParticipants, l, TRUE) :
                    p \in RatedPrograms, l \in SUBSET Participants}
    /\ accepted_signups = 0
    /\ ratings = AllCanLead
    /\ tform = NoTForm
    /\ saved_since_signup = FALSE

LeaderInputs ==
    {TripData(p, MaxParticipants, "A", l, TRUE) :
        p \in RatedPrograms \cup {None}, l \in SUBSET (Participants \cup {Ghost})}

NextTripLeaders ==
    \/ \E data \in LeaderInputs : TripForm__init__(data, FALSE, {})
    \/ TripForm_full_clean
    \/ TripForm_save
    \/ \E participant \in Participants, program \in RatedPrograms :
            RatingLapses(participant, program)

SpecTripLeaders == InitTripLeaders /\ [][NextTripLeaders]_vars

(***************************************************************************)
(* The claims.                                                              *)
(***************************************************************************)
\* An address at mit.edu or at a host below it, compared case-insensitively.
IsMitAddress(email) ==
    \/ EndsWith(Lower(email), AtMitEdu)
    \/ EndsWith(Lower(email), <<".">> \o MitEdu)

MitStudentCodes == {MIT_UNDERGRAD, MIT_GRAD_STUDENT}

\* C1: whenever the submitted affiliation is an MIT student affiliation and
\* none of the user's verified addresses is an MIT address, validating the
\* affiliation fails with code lacks_mit_email and the message "MIT email
\* address required for student affiliation!".
C1_StudentWithoutMitEmailRejected ==
    (/\ pform.pc = "cleaned"
     /\ pform.data \in MitStudentCodes
     /\ ~\E email \in pform.verified_emails : IsMitAddress(email))
    => /\ pform.outcome.kind = "invalid"
       /\ pform.outcome.code = "lacks_mit_email"
       /\ pform.outcome.message =
              "MIT email address required for student affiliation!"

\* C10: clean_affiliation returns a non-student affiliation unchanged
\* whatever the verified addresses are, returns an MIT student affiliation
\* unchanged when some verified address is, case-insensitively, an MIT
\* address, and never returns anything but the affiliation it was given.
C10_AffiliationAcceptPath ==
    (pform.pc = "cleaned" /\ pform.data \in AffiliationChoices)
    => /\ pform.data \notin MitStudentCodes
            => pform.outcome = Returned(pform.data)
       /\ (/\ pform.data \in MitStudentCodes
           /\ \E email \in pform.verified_emails : IsMitAddress(email))
            => pform.outcome = Returned(pform.data)
       /\ pform.outcome.kind = "return" => pform.outcome.value = pform.data

\* C10 witness: a student affiliation accepted on the strength of an
\* upper-case MIT address alone.
C10_Witness ==
    /\ pform.pc = "cleaned"
    /\ pform.data = MIT_GRAD_STUDENT
    /\ pform.verified_emails = {<<"A", "@", "M", "I", "T", ".", "E", "D", "U">>}
    /\ pform.outcome = Returned(MIT_GRAD_STUDENT)

ShrinkError == FormError("maximum_participants", ShrinkMessage)

\* C2: editing a saved trip, a submitted maximum_participants below the
\* number of accepted signups is rejected with "Can't shrink trip past number
\* of signed-up participants..."; and while no signup has changed since a
\* TripForm was saved, maximum_participants is at least that number.
C2_NoShrinkBelowAccepted ==
    /\ (/\ tform.pc = "cleaned"
        /\ trip.pk # None
        /\ tform.data.maximum_participants >= 0
        /\ tform.data.maximum_participants < accepted_signups)
       => /\ ShrinkError \in tform.errors
          /\ "maximum_participants" \notin tform.cleaned_data.has
    /\ saved_since_signup => trip.maximum_participants >= accepted_signups

\* C2 witness: after a save with no signup change since, a further edit that
\* would shrink the trip below its accepted signups has been rejected.
C2_Witness ==
    /\ saved_since_signup
    /\ tform.pc = "cleaned"
    /\ accepted_signups > 0
    /\ tform.data.maximum_participants >= 0
    /\ tform.data.maximum_participants < accepted_signups
    /\ ShrinkError \in tform.errors

\* clean_winter_terrain_level ran: the level field's own clean had passed.
LevelHookRan == 
    tform.pc \in {"cleaned", "raised"} /\ "winter_terrain_level" \in tform.hooks

\* C3: when the cleaned program is one for which winter rules do not apply,
\* clean_winter_terrain_level returns None whatever the level; when winter
\* rules apply, or no valid program was cleaned, it returns the level it was
\* given unchanged.
C3_TerrainLevelStrippedOrKept ==
    LevelHookRan
    => IF /\ "program" \in tform.cleaned_data.has
          /\ ~winter_rules_apply(tform.cleaned_data.program)
       THEN tform.level_hook = Returned(None)
       ELSE tform.level_hook = Returned(tform.level_field.value)

\* The program of the trip a form is for: the submitted one, else the one of
\* the trip being edited.
FormProgram ==
    IF Truthy(tform.data.program) THEN tform.data.program ELSE trip.program

TripFormConstructed == tform.pc \in {"constructed", "cleaned", "saved"}

\* C4 as stated: for every constructed TripForm, winter_terrain_level is
\* required only if the trip's program is one whose winter rules apply.
C4_RequiredOnlyForWinterTrips ==
    TripFormConstructed
    => (tform.level_required => winter_rules_apply(FormProgram))

\* C4 as amended: a TripForm constructed with a submitted program requires
\* winter_terrain_level exactly when that program's winter rules apply; one
\* constructed without a submitted program (a GET, or a blank program)
\* requires it whatever the trip's program.
C4_RequiredFollowsSubmittedProgram ==
    TripFormConstructed
    => IF Truthy(tform.data.program)
       THEN tform.level_required <=> winter_rules_apply(tform.data.program)
       ELSE tform.level_required

\* C4 witness: a form for a submitted summer program, level not required.
C4_Witness ==
    /\ tform.pc = "constructed"
    /\ tform.data.program = HIKING
    /\ ~tform.level_required

\* C5: constructing and validating a TripForm never ends in an uncaught
\* exception, whatever was submitted.
C5_NoUncaughtException == tform.pc # "raised"

\* C6: clean_membership_required returns True whenever the cleaned program
\* is WINTER_SCHOOL and the submitted value otherwise; so no trip saved
\* through a valid TripForm is a Winter School trip not requiring membership.
C6_WinterSchoolRequiresMembership ==
    /\ tform.pc \in {"cleaned", "saved"}
       => tform.cleaned_data.membership_required =
              IF /\ "program" \in tform.cleaned_data.has
                 /\ tform.cleaned_data.program = WINTER_SCHOOL
              THEN TRUE
              ELSE tform.data.membership_required
    /\ tform.pc = "saved"
       => ~(trip.program = WINTER_SCHOOL /\ ~trip.membership_required)

\* C6 witness: a Winter School trip submitted without the membership
\* requirement has been saved with it.
C6_Witness ==
    /\ tform.pc = "saved"
    /\ trip.program = WINTER_SCHOOL
    /\ ~tform.data.membership_required
    /\ trip.membership_required

\* Program and leaders both passed their fields' clean.
ProgramAndLeadersCleaned ==
    /\ ProgramFieldClean(tform.data.program, tform.program_choices).kind = "return"
    /\ LeadersFieldClean(tform.data.leaders).kind = "return"

\* The leaders the claim says are checked.
LeadersToCheck ==
    IF trip.pk = None THEN tform.data.leaders
    ELSE tform.data.leaders \ trip.leaders

LeadersErrors == {e \in tform.errors : e.field = "leaders"}

\* C7: when program and leaders were both cleaned, "<names> can't lead
\* <program> trips" is attached to leaders exactly when a checked leader
\* lacks can_lead(program), naming those leaders; every submitted leader is
\* checked for a new trip, only those not already on the trip for a saved one.
C7_LeadersCanLead ==
    (tform.pc = "cleaned" /\ ProgramAndLeadersCleaned)
    => LET lacking == {p \in LeadersToCheck : ~can_lead(p, tform.data.program)}
       IN  LeadersErrors =
             IF lacking = {} THEN {}
             ELSE {[field |-> "leaders", message |-> "can't lead",
                    names |-> lacking, program |-> tform.data.program]}

\* C7 witness: a leader whose rating lapsed stays on the saved trip without
\* an error, the edit adding a rated leader.
C7_Witness ==
    /\ tform.pc = "cleaned"
    /\ trip.pk # None
    /\ tform.data.program = WINTER_SCHOOL
    /\ trip.leaders = {"bob"}
    /\ tform.data.leaders = {"ann", "bob"}
    /\ ~can_lead("bob", WINTER_SCHOOL)
    /\ can_lead("ann", WINTER_SCHOOL)
    /\ tform.errors = {}

NotesErrors == {e \in sform.errors : e.field = "notes"}

\* The submission leaves the notes the trip asks for empty.
NotesMissing ==
    /\ sform.pc = "cleaned"
    /\ "trip" \in sform.cleaned_data.has
    /\ TripNotes[sform.cleaned_data.trip] # <<>>
    /\ Strip(sform.notes) = <<>>

\* C8 as stated: whenever the cleaned trip has notes and the submitted notes
\* are empty once stripped, validation fails with "Please complete notes to
\* sign up!"; in every other case clean_notes returns the stripped notes.
C8_MissingNotesGetCompleteMessage ==
    /\ NotesMissing => NotesErrors = {FormError("notes", CompleteNotesMessage)}
    /\ (sform.pc = "cleaned" /\ sform.hook_ran /\ ~NotesMissing)
         => sform.hook = Returned(Strip(sform.notes))

\* C8 as amended: whenever the cleaned trip has notes and the submitted notes
\* are empty once stripped, validation of notes fails: with "This field is
\* required." when __init__ made notes required (the initial trip has notes),
\* and with "Please complete notes to sign up!" otherwise; in every other
\* case in which clean_notes runs it returns the stripped notes.
C8_MissingNotesRejected ==
    /\ NotesMissing
         => NotesErrors =
              {FormError("notes", IF sform.required THEN RequiredMessage
                                  ELSE CompleteNotesMessage)}
    /\ (sform.pc = "cleaned" /\ sform.hook_ran /\ ~NotesMissing)
         => /\ sform.hook = Returned(Strip(sform.notes))
            /\ sform.cleaned_data.notes = Strip(sform.notes)

\* C8 witness: blank notes for a trip with notes, the form built without that
\* trip as initial, rejected by clean_notes.
C8_Witness ==
    /\ NotesMissing
    /\ ~sform.required
    /\ sform.notes = <<" ">>
    /\ sform.hook = Invalid("", CompleteNotesMessage)

\* C9: a bound form built by the factory is invalid with "Not currently
\* accepting applications!" whenever applications for its activity are not
\* accepted when it is validated, whatever else was submitted; when they are
\* accepted, clean returns the cleaned data unchanged.
C9_ClosedApplicationsRejected ==
    [][(lform.pc = "constructed" /\ lform'.pc = "cleaned")
        => IF ~accepting[lform.activity_enum]
           THEN FormError("__all__", NotAcceptingMessage) \in lform'.errors
           ELSE /\ lform'.clean_outcome = Returned(lform'.cleaned_data)
                /\ \A e \in lform'.errors : e.field # "__all__"]_vars

\* C9 witness: an otherwise valid application for an activity whose
\* applications are closed has been validated and carries that one error.
C9_Witness ==
    /\ lform.pc = "cleaned"
    /\ lform.submitted = ApplicationFields
    /\ ~accepting[lform.activity_enum]
    /\ lform.errors = {FormError("__all__", NotAcceptingMessage)}

\* The maximum_participants field passed its own clean, so that
\* clean_maximum_participants ran, and the hook returned the submitted value:
\* it is the cleaned value and the field carries no error.
MaximumParticipantsAccepted ==
    /\ "maximum_participants" \in tform.hooks
    /\ "maximum_participants" \in tform.cleaned_data.has
    /\ tform.cleaned_data.maximum_participants = tform.data.maximum_participants
    /\ \A e \in tform.errors : e.field # "maximum_participants"

\* C11: clean_maximum_participants accepts and returns unchanged any
\* submitted maximum_participants for a trip not yet created (pk is None),
\* and, for a saved trip, any value greater than or equal to the number of
\* accepted signups, a value exactly equal to it included.
C11_MaximumParticipantsAcceptPath ==
    (tform.pc = "cleaned" /\ tform.data.maximum_participants >= 0)
    => /\ trip.pk = None => MaximumParticipantsAccepted
       /\ (trip.pk # None
             /\ tform.data.maximum_participants >= accepted_signups)
            => MaximumParticipantsAccepted

\* C11 witness: an edit of a saved trip with accepted signups that sets the
\* maximum to exactly their number has been validated and accepted.
C11_Witness ==
    /\ tform.pc = "cleaned"
    /\ trip.pk # None
    /\ accepted_signups > 0
    /\ tform.data.maximum_participants = accepted_signups
    /\ MaximumParticipantsAccepted
    /\ tform.errors = {}

====
